---- MODULE Spec2Model ----
(***************************************************************************)
(* Model of the PermafrostRiskFHE contract (src/frontend/web/src/App.tsx,  *)
(* lines 793-951): the measurement registry, the request map shared by the *)
(* two decryption callbacks and the encrypted per-zone counters.           *)
(*                                                                         *)
(* Every public function is one transaction and therefore one atomic       *)
(* action.  A transaction that reverts leaves the contract storage and the *)
(* event log as they were; only `result` (the receipt of the last          *)
(* transaction) records that it was attempted.                             *)
(*                                                                         *)
(* The FHE library is external.  An euint32 is modelled as a record        *)
(* [init, plain]: init is FHE.isInitialized (handle # 0) and plain the     *)
(* value the handle encrypts.  FHE.requestDecryption mints request ids     *)
(* from a counter; FHE.checkSignatures either passes or reverts, which the *)
(* callbacks take as the input proofValid.  A counter holds at most MaxTx,  *)
(* far below 2^32, so euint32 addition never wraps here.                   *)
(*                                                                         *)
(* The same file holds the dashboard (lines 1-791).  Its addDataPoint and  *)
(* loadData, which keep a key list in a store of bytes, are modelled for   *)
(* two clients under SpecDashboard.                                        *)
(***************************************************************************)
EXTENDS Integers, Sequences, FiniteSets, TLC

\* ------------------------------------------------------------------ bounds
\* Number of successful state-changing transactions in one behaviour.
MaxTx == 4

\* --------------------------------------------------------- input alphabets
\* Opaque ciphertext handles a submitter can pass in (0 is the null handle).
TemperatureHandles == {101, 102}
GasLevelHandles == {201}
\* The value of block.timestamp (every transaction is mined at this time).
Timestamps == {1000}
\* Plaintexts a callback can carry.
Temps == {-5, 2}
GasLevels == {3}
Cleartexts == {<<1>>} \cup {<<t, g>> : t \in Temps, g \in GasLevels}

\* Strings used as zone keys: the three labels assignZone returns and one
\* label it never returns.
ZoneLabels == {"LowRisk", "MediumRisk", "HighRisk", "Tundra"}

\* bytes32ToUint(keccak256(abi.encodePacked(zone))): a fixed injective table
\* of values far above every measurement id and different from 0.
ZoneHash(zone) ==
    CASE zone = "LowRisk" -> 9001
      [] zone = "MediumRisk" -> 9002
      [] zone = "HighRisk" -> 9003
      [] OTHER -> 9004

ZoneHashes == {ZoneHash(z) : z \in ZoneLabels}

\* Keys of the uint256-keyed mappings that the model tracks.
Keys == (0..MaxTx) \cup ZoneHashes

\* Measurement ids requestMeasurementDecryption is called with: 0, ids that
\* are or are not yet submitted, and a number that is also a zone's hash.
MeasurementIds == {0, 1, 2, ZoneHash("LowRisk")}

\* Keys of requestToMeasurementId: 0 and MaxTx + 1 are never minted by the
\* engine.
RequestIds == 0..(MaxTx + 1)

VARIABLES
    measurementCount,        \* uint256 public measurementCount
    encryptedMeasurements,   \* mapping(uint256 => EncryptedMeasurement)
    decryptedMeasurements,   \* mapping(uint256 => DecryptedMeasurement)
    encryptedZoneRisk,       \* mapping(string => euint32)
    zoneList,                \* string[]
    requestToMeasurementId,  \* mapping(uint256 => uint256)
    nextRequestId,           \* the engine's request counter
    requestSelector,         \* the engine's record of each request's callback selector
    events,                  \* the contract's event log
    resolved,                \* per request id, how often decryptMeasurement succeeded
    result,                  \* receipt of the last transaction
    classifyInput,           \* the (temperature, gasLevel) a lone call of assignZone is given
    classifyOutput,          \* what that call returned ("" before it ran)
    chainData,               \* the bytes behind contract.getData / contract.setData
    pc,                      \* per dashboard client, where its addDataPoint call stands
    dataId,                  \* per client, const dataId of addDataPoint
    keys,                    \* per client, let keys of addDataPoint
    loadKeys,                \* per client, the keys loadData's loop has still to visit
    list,                    \* per client, const list of loadData
    dataPoints,              \* per client, the React state dataPoints (its ids)
    transactionStatus        \* per client, the React state transactionStatus

\* The dashboard's variables.
dashboardVars == <<chainData, pc, dataId, keys, loadKeys, list, dataPoints,
                   transactionStatus>>

vars == <<measurementCount, encryptedMeasurements, decryptedMeasurements,
          encryptedZoneRisk, zoneList, requestToMeasurementId, nextRequestId,
          requestSelector, events, resolved, result,
          classifyInput, classifyOutput, dashboardVars>>

\* The contract's storage and log, without the receipt.
storage == <<measurementCount, encryptedMeasurements, decryptedMeasurements,
             encryptedZoneRisk, zoneList, requestToMeasurementId, nextRequestId,
             requestSelector, events, resolved>>

\* ------------------------------------------------------------ FHE library
NullEuint32 == [init |-> FALSE, plain |-> 0]

asEuint32(v) == [init |-> TRUE, plain |-> v]

isInitialized(e) == e.init

add(a, b) == [init |-> TRUE, plain |-> a.plain + b.plain]

\* ----------------------------------------------------------------- helpers
EmptyEncrypted == [id |-> 0, encryptedTemperature |-> 0, encryptedGasLevel |-> 0,
                   timestamp |-> 0]

EmptyDecrypted == [temperature |-> 0, gasLevel |-> 0, isDecrypted |-> FALSE]

Receipt(op, status) == [op |-> op, status |-> status]

\* A revert that does not roll the log back: the failure leaves one event.
RevertedKeepsEvent(op, status) ==
    /\ result' = Receipt(op, status)
    /\ events' = IF events # <<>> /\ events[Len(events)] = <<"Failed">>
                 THEN events
                 ELSE Append(events, <<"Failed">>)
    /\ UNCHANGED <<measurementCount, encryptedMeasurements, decryptedMeasurements,
                   encryptedZoneRisk, zoneList, requestToMeasurementId,
                   nextRequestId, requestSelector, resolved>>

Reverted(op, status) ==
    /\ result' = Receipt(op, status)
    /\ UNCHANGED storage

\* assignZone with both comparisons inclusive.
assignZoneInclusive(temperature, gasLevel) ==
    IF temperature <= -2 THEN "LowRisk"
    ELSE IF temperature <= 2 THEN "MediumRisk"
    ELSE "HighRisk"

assignZone(temperature, gasLevel) ==
    IF temperature < -2 THEN "LowRisk"
    ELSE IF temperature < 2 THEN "MediumRisk"
    ELSE "HighRisk"

\* Request ids a callback is called with: every id minted so far, and two
\* that were never minted (0 and the one the engine would mint next).
CallbackRequestIds == 0..nextRequestId

NumDecrypts == Len(SelectSeq(events, LAMBDA e : e[1] = "MeasurementDecrypted"))

\* Successful state-changing transactions so far: submissions, requests
\* and measurement callbacks.
TxCount == measurementCount + (nextRequestId - 1) + NumDecrypts

\* -------------------------------------------------------------------- Init
ContractInit ==
    /\ measurementCount = 0
    /\ encryptedMeasurements = [k \in Keys |-> EmptyEncrypted]
    /\ decryptedMeasurements = [k \in Keys |-> EmptyDecrypted]
    /\ encryptedZoneRisk = [z \in ZoneLabels |-> NullEuint32]
    /\ zoneList = <<>>
    /\ requestToMeasurementId = [r \in RequestIds |-> 0]
    /\ nextRequestId = 1
    /\ requestSelector = [r \in RequestIds |-> "none"]
    /\ events = <<>>
    /\ resolved = [r \in RequestIds |-> 0]
    /\ result = Receipt("constructor", "ok")

\* Two dashboard clients, each making one call of addDataPoint.
Clients == {"A", "B"}

\* Values `${Date.now()}-${Math.random()...}` takes; "k0" is the id of a
\* record stored before either call.
DataIds == {"k1", "k2", "k3"}
AllDataIds == DataIds \cup {"k0"}

\* The keys "data_keys" and `data_${dataId}` of the store.
KeysKey == <<"data_keys">>
DataKey(id) == <<"data_", id>>
StoreKeys == {KeysKey} \cup {DataKey(id) : id \in AllDataIds}

\* ethers.toUtf8Bytes(JSON.stringify(keys)) for an array of strings, as the
\* sequence of its tokens, and JSON.stringify(data) for a record.
stringify(ks) == <<"[">> \o ks \o <<"]">>
stringifyData == <<"{", "}">>

\* let keys = []; if (keysBytes.length > 0) try { keys = JSON.parse(...) }
\* catch { }: the array the bytes spell, [] for no bytes and for bytes
\* that do not spell an array.
parseKeys(keysBytes) ==
    IF Len(keysBytes) >= 2 /\ keysBytes[1] = "[" /\ keysBytes[Len(keysBytes)] = "]"
    THEN SubSeq(keysBytes, 2, Len(keysBytes) - 1)
    ELSE <<>>

\* contract.getData(key) and the store after contract.setData(key, value):
\* the store keeps, per key, the bytes last written and has no bytes for a
\* key never written.
getData(key) == chainData[key]

setData(key, value) == [chainData EXCEPT ![key] = value]

HiddenStatus == [visible |-> FALSE, status |-> "pending"]

\* No dashboard call has started.
DashboardIdle ==
    /\ pc = [c \in Clients |-> "idle"]
    /\ dataId = [c \in Clients |-> ""]
    /\ keys = [c \in Clients |-> <<>>]
    /\ loadKeys = [c \in Clients |-> <<>>]
    /\ list = [c \in Clients |-> <<>>]
    /\ dataPoints = [c \in Clients |-> {}]
    /\ transactionStatus = [c \in Clients |-> HiddenStatus]

Init ==
    /\ ContractInit
    /\ classifyInput = <<0, 0>>
    /\ classifyOutput = ""
    /\ chainData = [k \in StoreKeys |-> <<>>]
    /\ DashboardIdle

\* ----------------------------------------------------------------- actions
\* submitEncryptedMeasurement with the id read before the counter is bumped.
submitIdBeforeIncrement(encryptedTemperature, encryptedGasLevel, timestamp) ==
    /\ TxCount < MaxTx
    /\ timestamp >= encryptedMeasurements[measurementCount].timestamp
    /\ LET newId == measurementCount IN
        /\ measurementCount' = measurementCount + 1
        /\ encryptedMeasurements' = [encryptedMeasurements EXCEPT ![newId] =
               [id |-> newId,
                encryptedTemperature |-> encryptedTemperature,
                encryptedGasLevel |-> encryptedGasLevel,
                timestamp |-> timestamp]]
        /\ decryptedMeasurements' = [decryptedMeasurements EXCEPT ![newId] =
               [temperature |-> 0, gasLevel |-> 0, isDecrypted |-> FALSE]]
        /\ events' = Append(events, <<"MeasurementSubmitted", newId, timestamp>>)
        /\ result' = Receipt("submitEncryptedMeasurement", "ok")
    /\ UNCHANGED <<encryptedZoneRisk, zoneList, requestToMeasurementId,
                   nextRequestId, requestSelector, resolved>>

\* submitEncryptedMeasurement taking its id from a stale read of the counter:
\* the second and later submissions reuse the id of the one before.
submitStaleId(encryptedTemperature, encryptedGasLevel, timestamp) ==
    /\ TxCount < MaxTx
    /\ timestamp >= encryptedMeasurements[measurementCount].timestamp
    /\ LET newId == IF measurementCount = 0 THEN 1 ELSE measurementCount IN
        /\ measurementCount' = measurementCount + 1
        /\ encryptedMeasurements' = [encryptedMeasurements EXCEPT ![newId] =
               [id |-> newId,
                encryptedTemperature |-> encryptedTemperature,
                encryptedGasLevel |-> encryptedGasLevel,
                timestamp |-> timestamp]]
        /\ decryptedMeasurements' = [decryptedMeasurements EXCEPT ![newId] =
               [temperature |-> 0, gasLevel |-> 0, isDecrypted |-> FALSE]]
        /\ events' = Append(events, <<"MeasurementSubmitted", newId, timestamp>>)
        /\ result' = Receipt("submitEncryptedMeasurement", "ok")
    /\ UNCHANGED <<encryptedZoneRisk, zoneList, requestToMeasurementId,
                   nextRequestId, requestSelector, resolved>>

\* submitEncryptedMeasurement without the write of the decrypted record: the
\* new id keeps whatever the mapping held for it.
submitWithoutPendingRecord(encryptedTemperature, encryptedGasLevel, timestamp) ==
    /\ TxCount < MaxTx
    /\ timestamp >= encryptedMeasurements[measurementCount].timestamp
    /\ LET newId == measurementCount + 1 IN
        /\ measurementCount' = newId
        /\ encryptedMeasurements' = [encryptedMeasurements EXCEPT ![newId] =
               [id |-> newId,
                encryptedTemperature |-> encryptedTemperature,
                encryptedGasLevel |-> encryptedGasLevel,
                timestamp |-> timestamp]]
        /\ events' = Append(events, <<"MeasurementSubmitted", newId, timestamp>>)
        /\ result' = Receipt("submitEncryptedMeasurement", "ok")
    /\ UNCHANGED <<decryptedMeasurements, encryptedZoneRisk, zoneList,
                   requestToMeasurementId, nextRequestId, requestSelector,
                   resolved>>

submitEncryptedMeasurement(encryptedTemperature, encryptedGasLevel, timestamp) ==
    /\ TxCount < MaxTx
    /\ timestamp >= encryptedMeasurements[measurementCount].timestamp
    /\ LET newId == measurementCount + 1 IN
        /\ measurementCount' = newId
        /\ encryptedMeasurements' = [encryptedMeasurements EXCEPT ![newId] =
               [id |-> newId,
                encryptedTemperature |-> encryptedTemperature,
                encryptedGasLevel |-> encryptedGasLevel,
                timestamp |-> timestamp]]
        /\ decryptedMeasurements' = [decryptedMeasurements EXCEPT ![newId] =
               [temperature |-> 0, gasLevel |-> 0, isDecrypted |-> FALSE]]
        /\ events' = Append(events, <<"MeasurementSubmitted", newId, timestamp>>)
        /\ result' = Receipt("submitEncryptedMeasurement", "ok")
    /\ UNCHANGED <<encryptedZoneRisk, zoneList, requestToMeasurementId,
                   nextRequestId, requestSelector, resolved>>

\* requestMeasurementDecryptionStatus without the require.
requestMeasurementDecryptionStatusNoRequire(measurementId) == "ok"

\* The revert reason of requestMeasurementDecryption, or "ok".
requestMeasurementDecryptionStatus(measurementId) ==
    IF decryptedMeasurements[measurementId].isDecrypted THEN "Already decrypted"
    ELSE "ok"

requestMeasurementDecryption(measurementId) ==
    LET status == requestMeasurementDecryptionStatus(measurementId)
        reqId == nextRequestId
    IN  IF status # "ok"
        THEN Reverted("requestMeasurementDecryption", status)
        ELSE /\ TxCount < MaxTx
             /\ nextRequestId' = nextRequestId + 1
             /\ requestSelector' =
                    [requestSelector EXCEPT ![reqId] = "decryptMeasurement"]
             /\ requestToMeasurementId' =
                    [requestToMeasurementId EXCEPT ![reqId] = measurementId]
             /\ events' = Append(events, <<"DecryptionRequested", measurementId>>)
             /\ result' = Receipt("requestMeasurementDecryption", "ok")
             /\ UNCHANGED <<measurementCount, encryptedMeasurements,
                            decryptedMeasurements, encryptedZoneRisk, zoneList,
                            resolved>>

\* decryptMeasurementStatus without the require on the request map.
decryptMeasurementStatusNoRequire(requestId, cleartexts, proofValid) ==
    IF ~proofValid THEN "InvalidProof"
    ELSE IF Len(cleartexts) < 2 THEN "Panic"
    ELSE "ok"

\* decryptMeasurementStatus without the call of FHE.checkSignatures.
decryptMeasurementStatusNoProof(requestId, cleartexts, proofValid) ==
    IF requestToMeasurementId[requestId] = 0 THEN "Invalid request"
    ELSE IF Len(cleartexts) < 2 THEN "Panic"
    ELSE "ok"

\* The revert reason of decryptMeasurement, or "ok", in the order the code
\* meets them: the require, FHE.checkSignatures, then results[0], results[1]
\* of the decoded int32[].
decryptMeasurementStatus(requestId, cleartexts, proofValid) ==
    IF requestToMeasurementId[requestId] = 0 THEN "Invalid request"
    ELSE IF ~proofValid THEN "InvalidProof"
    ELSE IF Len(cleartexts) < 2 THEN "Panic"
    ELSE "ok"

\* contribute with a new bucket created at one instead of zero.
contributeCreatedAtOne(zone) ==
    LET created == IF ~isInitialized(encryptedZoneRisk[zone])
                   THEN [encryptedZoneRisk EXCEPT ![zone] = asEuint32(1)]
                   ELSE encryptedZoneRisk
    IN  [created EXCEPT ![zone] = add(created[zone], asEuint32(1))]

\* contribute that recreates the bucket on every call, losing the earlier
\* increments.
contributeLostUpdate(zone) ==
    LET created == [encryptedZoneRisk EXCEPT ![zone] = asEuint32(0)]
    IN  [created EXCEPT ![zone] = add(created[zone], asEuint32(1))]

\* encryptedZoneRisk after lines 886-891 for the given zone.
contribute(zone) ==
    LET created == IF ~isInitialized(encryptedZoneRisk[zone])
                   THEN [encryptedZoneRisk EXCEPT ![zone] = asEuint32(0)]
                   ELSE encryptedZoneRisk
    IN  [created EXCEPT ![zone] = add(created[zone], asEuint32(1))]

\* pushZone without the isInitialized test.
pushZoneAlways(zone) == Append(zoneList, zone)

\* zoneList after lines 886-889 for the given zone.
pushZone(zone) ==
    IF ~isInitialized(encryptedZoneRisk[zone])
    THEN Append(zoneList, zone)
    ELSE zoneList

\* decryptMeasurement that correlates by arrival order: the n-th callback
\* to succeed is applied to the target of the n-th request issued.
decryptMeasurementInArrivalOrder(requestId, cleartexts, proofValid) ==
    LET status == decryptMeasurementStatus(requestId, cleartexts, proofValid)
        measurementId == requestToMeasurementId[NumDecrypts + 1]
    IN  IF status # "ok"
        THEN Reverted("decryptMeasurement", status)
        ELSE LET results == cleartexts
                 zone == assignZone(results[1], results[2])
             IN  /\ TxCount < MaxTx
                 /\ decryptedMeasurements' =
                        [decryptedMeasurements EXCEPT ![measurementId] =
                            [temperature |-> results[1],
                             gasLevel |-> results[2],
                             isDecrypted |-> TRUE]]
                 /\ zoneList' = pushZone(zone)
                 /\ encryptedZoneRisk' = contribute(zone)
                 /\ events' = Append(events, <<"MeasurementDecrypted", measurementId>>)
                 /\ resolved' = [resolved EXCEPT ![requestId] = @ + 1]
                 /\ result' = Receipt("decryptMeasurement", "ok")
                 /\ UNCHANGED <<measurementCount, encryptedMeasurements,
                                requestToMeasurementId, nextRequestId,
                                requestSelector>>

decryptMeasurement(requestId, cleartexts, proofValid) ==
    LET status == decryptMeasurementStatus(requestId, cleartexts, proofValid)
        measurementId == requestToMeasurementId[requestId]
    IN  IF status # "ok"
        THEN Reverted("decryptMeasurement", status)
        ELSE LET results == cleartexts
                 zone == assignZone(results[1], results[2])
             IN  /\ TxCount < MaxTx
                 /\ decryptedMeasurements' =
                        [decryptedMeasurements EXCEPT ![measurementId] =
                            [temperature |-> results[1],
                             gasLevel |-> results[2],
                             isDecrypted |-> TRUE]]
                 /\ zoneList' = pushZone(zone)
                 /\ encryptedZoneRisk' = contribute(zone)
                 /\ events' = Append(events, <<"MeasurementDecrypted", measurementId>>)
                 /\ resolved' = [resolved EXCEPT ![requestId] = @ + 1]
                 /\ result' = Receipt("decryptMeasurement", "ok")
                 /\ UNCHANGED <<measurementCount, encryptedMeasurements,
                                requestToMeasurementId, nextRequestId,
                                requestSelector>>

getDecryptedMeasurement(measurementId) ==
    LET m == decryptedMeasurements[measurementId]
    IN  <<m.temperature, m.gasLevel, m.isDecrypted>>

getEncryptedZoneRisk(zone) == encryptedZoneRisk[zone]

\* requestZoneRiskDecryptionStatus without the require.
requestZoneRiskDecryptionStatusNoRequire(zone) == "ok"

\* The revert reason of requestZoneRiskDecryption, or "ok".
requestZoneRiskDecryptionStatus(zone) ==
    IF ~isInitialized(encryptedZoneRisk[zone]) THEN "Zone not found"
    ELSE "ok"

\* requestZoneRiskDecryption that keeps its target in one fixed slot of the
\* request map instead of under the id the engine minted.
requestZoneRiskDecryptionFixedSlot(zone) ==
    LET status == requestZoneRiskDecryptionStatus(zone)
        reqId == nextRequestId
    IN  IF status # "ok"
        THEN Reverted("requestZoneRiskDecryption", status)
        ELSE /\ TxCount < MaxTx
             /\ nextRequestId' = nextRequestId + 1
             /\ requestSelector' =
                    [requestSelector EXCEPT ![reqId] = "decryptZoneRisk"]
             /\ requestToMeasurementId' =
                    [requestToMeasurementId EXCEPT ![1] = ZoneHash(zone)]
             /\ result' = Receipt("requestZoneRiskDecryption", "ok")
             /\ UNCHANGED <<measurementCount, encryptedMeasurements,
                            decryptedMeasurements, encryptedZoneRisk, zoneList,
                            events, resolved>>

requestZoneRiskDecryption(zone) ==
    LET status == requestZoneRiskDecryptionStatus(zone)
        reqId == nextRequestId
    IN  IF status # "ok"
        THEN Reverted("requestZoneRiskDecryption", status)
        ELSE /\ TxCount < MaxTx
             /\ nextRequestId' = nextRequestId + 1
             /\ requestSelector' =
                    [requestSelector EXCEPT ![reqId] = "decryptZoneRisk"]
             /\ requestToMeasurementId' =
                    [requestToMeasurementId EXCEPT ![reqId] = ZoneHash(zone)]
             /\ result' = Receipt("requestZoneRiskDecryption", "ok")
             /\ UNCHANGED <<measurementCount, encryptedMeasurements,
                            decryptedMeasurements, encryptedZoneRisk, zoneList,
                            events, resolved>>

\* The zone getZoneFromHash returns, or "" where it reverts.
getZoneFromHash(hash) ==
    LET matches == {i \in 1..Len(zoneList) : ZoneHash(zoneList[i]) = hash}
    IN  IF matches = {} THEN ""
        ELSE zoneList[CHOOSE i \in matches : \A j \in matches : i <= j]

\* The revert reason of decryptZoneRisk, or "ok": getZoneFromHash, then
\* FHE.checkSignatures, then the decoding of one uint32.
decryptZoneRiskStatus(requestId, cleartexts, proofValid) ==
    IF getZoneFromHash(requestToMeasurementId[requestId]) = "" THEN "Zone not found"
    ELSE IF ~proofValid THEN "InvalidProof"
    ELSE IF Len(cleartexts) < 1 \/ cleartexts[1] < 0 THEN "Decode"
    ELSE "ok"

\* decryptZoneRisk that merges the decrypted count back: it restarts the
\* bucket it read from zero.
decryptZoneRiskResetsBucket(requestId, cleartexts, proofValid) ==
    LET status == decryptZoneRiskStatus(requestId, cleartexts, proofValid)
        zone == getZoneFromHash(requestToMeasurementId[requestId])
    IN  IF status # "ok"
        THEN Reverted("decryptZoneRisk", status)
        ELSE /\ result' = Receipt("decryptZoneRisk", "ok")
             /\ encryptedZoneRisk' = [encryptedZoneRisk EXCEPT ![zone] = asEuint32(0)]
             /\ UNCHANGED <<measurementCount, encryptedMeasurements,
                            decryptedMeasurements, zoneList,
                            requestToMeasurementId, nextRequestId,
                            requestSelector, events, resolved>>

decryptZoneRisk(requestId, cleartexts, proofValid) ==
    LET status == decryptZoneRiskStatus(requestId, cleartexts, proofValid)
    IN  IF status # "ok"
        THEN Reverted("decryptZoneRisk", status)
        ELSE /\ result' = Receipt("decryptZoneRisk", "ok")
             /\ UNCHANGED storage

ContractNext ==
    \/ \E et \in TemperatureHandles, eg \in GasLevelHandles, ts \in Timestamps :
          submitEncryptedMeasurement(et, eg, ts)
    \/ \E k \in MeasurementIds : requestMeasurementDecryption(k)
    \/ \E r \in CallbackRequestIds, c \in Cleartexts, p \in BOOLEAN :
          decryptMeasurement(r, c, p)
    \/ \E z \in ZoneLabels : requestZoneRiskDecryption(z)
    \/ \E r \in CallbackRequestIds, c \in Cleartexts, p \in BOOLEAN :
          decryptZoneRisk(r, c, p)

Next == ContractNext /\ UNCHANGED <<classifyInput, classifyOutput, dashboardVars>>

Spec == Init /\ [][Next]_vars

\* ------------------------------------------------- assignZone on its own
\* Inputs of the lone call: the temperatures around both thresholds and the
\* ends of the int32 range that can be written (TLC has no -2^31), with
\* several gas levels.
ClassifyTemps == (-6..6) \cup {-2147483647, 2147483647}
ClassifyGasLevels == 0..7

ClassifyInit ==
    /\ ContractInit
    /\ classifyInput \in ClassifyTemps \X ClassifyGasLevels
    /\ classifyOutput = ""
    /\ chainData = [k \in StoreKeys |-> <<>>]
    /\ DashboardIdle

Classify ==
    /\ classifyOutput = ""
    /\ classifyOutput' = assignZone(classifyInput[1], classifyInput[2])
    /\ UNCHANGED <<classifyInput, storage, result, dashboardVars>>

SpecClassify == ClassifyInit /\ [][Classify]_vars

\* ------------------------------------------------------- the dashboard
\* addDataPoint and the loadData it ends with, for two clients of one
\* store.  The steps are the stretches of code between two awaits that
\* touch the store; a write is taken to be in the store when setData
\* returns.  The timers that later hide the status banner are left out.

\* The store before the calls: empty, or holding one earlier record.
DashboardInit ==
    /\ ContractInit
    /\ classifyInput = <<0, 0>>
    /\ classifyOutput = ""
    /\ chainData \in {[k \in StoreKeys |-> <<>>],
                      [k \in StoreKeys |->
                          IF k = KeysKey THEN stringify(<<"k0">>)
                          ELSE IF k = DataKey("k0") THEN stringifyData
                          ELSE <<>>]}
    /\ DashboardIdle

\* catch (e) of addDataPoint: the call ends with the error banner.
addDataPointFailed(c) ==
    /\ pc' = [pc EXCEPT ![c] = "failed"]
    /\ transactionStatus' =
           [transactionStatus EXCEPT ![c] = [visible |-> TRUE, status |-> "error"]]

\* Lines 143-179: the provider check, the signer and the new id.
addDataPoint(c, provider, signer, id) ==
    /\ pc[c] = "idle"
    /\ IF ~provider
       THEN /\ pc' = [pc EXCEPT ![c] = "returned"]
            /\ UNCHANGED <<dataId, transactionStatus>>
       ELSE IF ~signer
       THEN /\ addDataPointFailed(c)
            /\ UNCHANGED dataId
       ELSE /\ id \notin {dataId[d] : d \in Clients}
            /\ dataId' = [dataId EXCEPT ![c] = id]
            /\ pc' = [pc EXCEPT ![c] = "setData"]
            /\ transactionStatus' =
                   [transactionStatus EXCEPT ![c] = [visible |-> TRUE, status |-> "pending"]]
    /\ UNCHANGED <<chainData, keys, loadKeys, list, dataPoints>>

\* Lines 181-184: await contract.setData(`data_${dataId}`, ...).
setDataRecord(c, sent) ==
    /\ pc[c] = "setData"
    /\ IF sent
       THEN /\ chainData' = setData(DataKey(dataId[c]), stringifyData)
            /\ pc' = [pc EXCEPT ![c] = "getKeys"]
            /\ UNCHANGED transactionStatus
       ELSE /\ addDataPointFailed(c)
            /\ UNCHANGED chainData
    /\ UNCHANGED <<dataId, keys, loadKeys, list, dataPoints>>

\* Lines 186-197: await contract.getData("data_keys"), parse, keys.push.
getDataKeys(c, read) ==
    /\ pc[c] = "getKeys"
    /\ IF read
       THEN /\ keys' = [keys EXCEPT ![c] =
                   Append(parseKeys(getData(KeysKey)), dataId[c])]
            /\ pc' = [pc EXCEPT ![c] = "setKeys"]
            /\ UNCHANGED transactionStatus
       ELSE /\ addDataPointFailed(c)
            /\ UNCHANGED keys
    /\ UNCHANGED <<chainData, dataId, loadKeys, list, dataPoints>>

\* Lines 199-208: await contract.setData("data_keys", ...), success banner.
setDataKeys(c, sent) ==
    /\ pc[c] = "setKeys"
    /\ IF sent
       THEN /\ chainData' = setData(KeysKey, stringify(keys[c]))
            /\ pc' = [pc EXCEPT ![c] = "loadData"]
            /\ transactionStatus' =
                   [transactionStatus EXCEPT ![c] = [visible |-> TRUE, status |-> "success"]]
       ELSE /\ addDataPointFailed(c)
            /\ UNCHANGED chainData
    /\ UNCHANGED <<dataId, keys, loadKeys, list, dataPoints>>

\* Lines 75-100 of loadData, called at line 210: the availability check and
\* the read of the key list.  loadData catches its own errors, so the call
\* of addDataPoint ends with the success banner either way.
loadData(c, isAvailable) ==
    /\ pc[c] = "loadData"
    /\ IF ~isAvailable
       THEN /\ pc' = [pc EXCEPT ![c] = "done"]
            /\ UNCHANGED <<loadKeys, list>>
       ELSE /\ loadKeys' = [loadKeys EXCEPT ![c] = parseKeys(getData(KeysKey))]
            /\ list' = [list EXCEPT ![c] = <<>>]
            /\ pc' = [pc EXCEPT ![c] = "loadItem"]
    /\ UNCHANGED <<chainData, dataId, keys, dataPoints, transactionStatus>>

\* Lines 102-125: one turn of the loop, for the next key.
loadDataItem(c) ==
    /\ pc[c] = "loadItem"
    /\ loadKeys[c] # <<>>
    /\ LET key == Head(loadKeys[c])
           dataBytes == getData(DataKey(key))
       IN  list' = [list EXCEPT ![c] =
                       IF Len(dataBytes) > 0 THEN Append(@, key) ELSE @]
    /\ loadKeys' = [loadKeys EXCEPT ![c] = Tail(@)]
    /\ UNCHANGED <<chainData, pc, dataId, keys, dataPoints, transactionStatus>>

\* Lines 127-128: list.sort and setDataPoints(list); dataPoints is kept as
\* the set of the ids in the sorted list.
setDataPoints(c) ==
    /\ pc[c] = "loadItem"
    /\ loadKeys[c] = <<>>
    /\ dataPoints' = [dataPoints EXCEPT ![c] =
                          {list[c][i] : i \in 1..Len(list[c])}]
    /\ pc' = [pc EXCEPT ![c] = "done"]
    /\ UNCHANGED <<chainData, dataId, keys, loadKeys, list, transactionStatus>>

DashboardNext ==
    \/ \E c \in Clients, provider \in BOOLEAN, signer \in BOOLEAN, id \in DataIds :
          addDataPoint(c, provider, signer, id)
    \/ \E c \in Clients, sent \in BOOLEAN : setDataRecord(c, sent)
    \/ \E c \in Clients, read \in BOOLEAN : getDataKeys(c, read)
    \/ \E c \in Clients, sent \in BOOLEAN : setDataKeys(c, sent)
    \/ \E c \in Clients, isAvailable \in BOOLEAN : loadData(c, isAvailable)
    \/ \E c \in Clients : loadDataItem(c)
    \/ \E c \in Clients : setDataPoints(c)

NextDashboard ==
    DashboardNext /\ UNCHANGED <<storage, result, classifyInput, classifyOutput>>

SpecDashboard == DashboardInit /\ [][NextDashboard]_vars

\* ------------------------------------------------------------------ claims
IsSubmitted(e) == e[1] = "MeasurementSubmitted"
IsRequested(e) == e[1] = "DecryptionRequested"
IsDecrypted(e) == e[1] = "MeasurementDecrypted"

\* The measurements that are in state Decrypted and classify to the zone.
DecryptedIn(zone) ==
    {k \in Keys : /\ decryptedMeasurements[k].isDecrypted
                  /\ assignZone(decryptedMeasurements[k].temperature,
                                decryptedMeasurements[k].gasLevel) = zone}

\* Request ids the engine never minted.
NeverIssued == {r \in RequestIds : requestSelector[r] = "none"}

\* C1: every request id is resolved by the measurement callback at most
\* once; a second callback with the same id is never processed.
C1_ResolvedAtMostOnce == \A r \in RequestIds : resolved[r] <= 1

\* C2: a decryptMeasurement transaction never succeeds for a measurement
\* that is already Decrypted and never changes its stored values.
C2_AlreadyDecryptedRejected ==
    [][result'.op = "decryptMeasurement" =>
         \A k \in Keys : decryptedMeasurements[k].isDecrypted =>
             /\ decryptedMeasurements'[k] = decryptedMeasurements[k]
             /\ events' # Append(events, <<"MeasurementDecrypted", k>>)]_vars

\* C3: the ids announced by MeasurementSubmitted are 1, 2, 3, ... in call
\* order (so distinct, increasing, never 0), each record is stored under its
\* id, and measurementCount is the number of submissions.
C3_SequentialIds ==
    LET subs == SelectSeq(events, IsSubmitted)
    IN  /\ Len(subs) = measurementCount
        /\ \A i \in 1..Len(subs) :
              /\ subs[i][2] = i
              /\ encryptedMeasurements[i].id = i
        /\ encryptedMeasurements[0] = EmptyEncrypted

C3_Witness ==
    /\ measurementCount = 2
    /\ result = Receipt("submitEncryptedMeasurement", "ok")

\* C4: once a measurement reads isDecrypted = true, its decrypted record
\* (temperature, gasLevel, isDecrypted) is the same in every later state.
C4_DecryptedIsStable ==
    [][\A k \in Keys : decryptedMeasurements[k].isDecrypted =>
           decryptedMeasurements'[k] = decryptedMeasurements[k]]_vars

\* C5: the plaintext of every zone's counter is the number of measurements
\* that are Decrypted and classify to that zone.
C5_CounterMatchesDecrypted ==
    \A z \in ZoneLabels : encryptedZoneRisk[z].plain = Cardinality(DecryptedIn(z))

\* C6: no decryption request is recorded or announced for an id that submit
\* never returned: every DecryptionRequested(id) follows a
\* MeasurementSubmitted(id, _), and every measurement request in the request
\* map targets a submitted id.
C6_RequestOnlySubmitted ==
    /\ \A i \in 1..Len(events) : IsRequested(events[i]) =>
           \E j \in 1..(i - 1) :
               IsSubmitted(events[j]) /\ events[j][2] = events[i][2]
    /\ \A r \in RequestIds : requestSelector[r] = "decryptMeasurement" =>
           requestToMeasurementId[r] \in 1..measurementCount

\* C7: only submitted measurements are Decrypted.
C7_OnlySubmittedDecrypted ==
    \A k \in Keys : decryptedMeasurements[k].isDecrypted =>
        k \in 1..measurementCount

\* C8: a request id issued for a zone is never processed by the measurement
\* callback, and a request id issued for a measurement is rejected by the
\* zone callback whatever the cleartext and proof.
C8_TargetTypeCorrelation ==
    \A r \in RequestIds :
        /\ requestSelector[r] = "decryptZoneRisk" => resolved[r] = 0
        /\ requestSelector[r] = "decryptMeasurement" =>
               \A c \in Cleartexts, p \in BOOLEAN :
                   decryptZoneRiskStatus(r, c, p) # "ok"

\* C9: a callback (measurement or zone) with a request id that was never
\* issued is rejected and leaves the storage and the event log unchanged:
\* every step either is a rejection that changes nothing or is no callback
\* with such an id.
C9_UnknownRequestRejected ==
    [][\/ result'.status # "ok" /\ UNCHANGED storage
       \/ \A r \in NeverIssued, c \in Cleartexts, p \in BOOLEAN :
              ~decryptMeasurement(r, c, p) /\ ~decryptZoneRisk(r, c, p)]_vars

\* A measurement callback was just rejected at the require although every
\* issued request has a non-zero target and a zone exists: its request id
\* was one the engine never issued.
C9_Witness ==
    /\ result = Receipt("decryptMeasurement", "Invalid request")
    /\ nextRequestId > 1
    /\ \A r \in RequestIds \ NeverIssued : requestToMeasurementId[r] # 0
    /\ zoneList # <<>>

\* C10: a callback whose proof fails verification is rejected and leaves
\* the storage and the event log unchanged: every step either is a rejection
\* that changes nothing or is no callback with a failing proof.
C10_InvalidProofAborts ==
    [][\/ result'.status # "ok" /\ UNCHANGED storage
       \/ \A r \in RequestIds, c \in Cleartexts :
              ~decryptMeasurement(r, c, FALSE) /\ ~decryptZoneRisk(r, c, FALSE)]_vars

C10_Witness ==
    /\ result.status = "InvalidProof"
    /\ zoneList # <<>>
\* C11: requestMeasurementDecryption of a measurement that is Decrypted
\* reverts with "Already decrypted" and changes nothing (no request id is
\* minted, no map entry written, no event emitted): every step either is
\* that rejection or is no such request.
C11_RequestOnDecryptedRejected ==
    [][\/ /\ result' = Receipt("requestMeasurementDecryption", "Already decrypted")
          /\ UNCHANGED storage
       \/ \A k \in MeasurementIds : decryptedMeasurements[k].isDecrypted =>
              ~requestMeasurementDecryption(k)]_vars

C11_Witness ==
    /\ result = Receipt("requestMeasurementDecryption", "Already decrypted")
    /\ \E k \in MeasurementIds : decryptedMeasurements[k].isDecrypted
\* The classification rule as the specification states it.
SpecZone(temperature) ==
    CASE temperature < -2 -> "LowRisk"
      [] temperature >= -2 /\ temperature < 2 -> "MediumRisk"
      [] temperature >= 2 -> "HighRisk"

\* The log after submit and requestMeasurementDecryption(1) on a fresh
\* contract: measurement 1 is submitted and request 1 is its only request.
SubmittedAndRequested ==
    /\ Len(events) = 2
    /\ IsSubmitted(events[1]) /\ events[1][2] = 1
    /\ events[2] = <<"DecryptionRequested", 1>>
    /\ nextRequestId = 2

\* C12: after submit, requestMeasurementDecryption(1) and one verified
\* callback carrying (t, g), getDecryptedMeasurement(1) is (t, g, true), the
\* bucket of the zone of (t, g) holds 1 and no other bucket exists; with
\* (-5, 3) that bucket is LowRisk.
C12_EndToEnd ==
    [][SubmittedAndRequested =>
         \A c \in Cleartexts : (Len(c) = 2 /\ decryptMeasurement(1, c, TRUE)) =>
             /\ getDecryptedMeasurement(1)' = <<c[1], c[2], TRUE>>
             /\ \A z \in ZoneLabels :
                    encryptedZoneRisk'[z] = IF z = SpecZone(c[1])
                                            THEN [init |-> TRUE, plain |-> 1]
                                            ELSE NullEuint32
             /\ zoneList' = <<SpecZone(c[1])>>
             /\ (c = <<-5, 3>> => getEncryptedZoneRisk("LowRisk")'.plain = 1)]_vars

C12_Witness ==
    /\ Len(events) = 3
    /\ IsSubmitted(events[1]) /\ events[2] = <<"DecryptionRequested", 1>>
    /\ events[3] = <<"MeasurementDecrypted", 1>>
    /\ getDecryptedMeasurement(1) = <<-5, 3, TRUE>>
    /\ encryptedZoneRisk["LowRisk"].plain = 1
\* C13: every contribution (a successful decryptMeasurement) adds exactly 1
\* to the counter of the zone of the values it stored, creating the bucket
\* with value 1 when it did not exist, and changes no other counter; no
\* other transaction changes a counter.  So N contributions leave N.
C13_ContributionAddsOne ==
    [][IF result' = Receipt("decryptMeasurement", "ok") /\ events' # events
       THEN LET k == events'[Len(events')][2]
                z == SpecZone(decryptedMeasurements'[k].temperature)
            IN  /\ encryptedZoneRisk'[z].init
                /\ encryptedZoneRisk'[z].plain = encryptedZoneRisk[z].plain + 1
                /\ ~encryptedZoneRisk[z].init => encryptedZoneRisk[z].plain = 0
                /\ \A y \in ZoneLabels \ {z} :
                       encryptedZoneRisk'[y] = encryptedZoneRisk[y]
       ELSE encryptedZoneRisk' = encryptedZoneRisk]_vars

C13_Witness ==
    /\ encryptedZoneRisk["HighRisk"] = [init |-> TRUE, plain |-> 3]
    /\ NumDecrypts = 3
\* zoneList holds exactly the labels whose counter is initialized, each once.
ZoneIndexExact ==
    /\ \A i, j \in 1..Len(zoneList) : zoneList[i] = zoneList[j] => i = j
    /\ {zoneList[i] : i \in 1..Len(zoneList)} =
           {z \in ZoneLabels : isInitialized(encryptedZoneRisk[z])}

\* C14: in every state zoneList holds exactly the labels with an initialized
\* counter, each once; every step only appends to zoneList (so it is in
\* first-contribution order and nothing is removed) and keeps every
\* initialized counter initialized.
C14_ZoneIndexAppendOnly ==
    [][/\ ZoneIndexExact
       /\ ZoneIndexExact'
       /\ Len(zoneList') >= Len(zoneList)
       /\ SubSeq(zoneList', 1, Len(zoneList)) = zoneList
       /\ \A z \in ZoneLabels : isInitialized(encryptedZoneRisk[z]) =>
              isInitialized(encryptedZoneRisk'[z])]_vars

C14_Witness ==
    /\ zoneList = <<"HighRisk", "LowRisk">>
    /\ encryptedZoneRisk["HighRisk"].plain = 2
    /\ encryptedZoneRisk["LowRisk"].plain = 1
\* The labels that have received a contribution: those pushed to zoneList.
Contributed(zone) == \E i \in 1..Len(zoneList) : zoneList[i] = zone

\* C15: requestZoneRiskDecryption(label) reverts with "Zone not found" and
\* changes nothing when the label never received a contribution, and
\* otherwise succeeds and records the new request id for the label's hash.
C15_ZoneRequestNeedsBucket ==
    [][\/ result'.op # "requestZoneRiskDecryption"
       \/ \A z \in ZoneLabels : requestZoneRiskDecryption(z) =>
              IF Contributed(z)
              THEN /\ result'.status = "ok"
                   /\ requestToMeasurementId'[nextRequestId] = ZoneHash(z)
                   /\ requestSelector'[nextRequestId] = "decryptZoneRisk"
              ELSE /\ result'.status = "Zone not found"
                   /\ UNCHANGED storage]_vars

C15_Witness ==
    /\ result = Receipt("requestZoneRiskDecryption", "Zone not found")
    /\ zoneList # <<>>
    /\ \E r \in RequestIds : requestSelector[r] = "decryptZoneRisk"
\* C16: assignZone returns LowRisk below -2, MediumRisk from -2 up to but
\* not including 2, HighRisk from 2 on, for every input, and the same label
\* for every gas level.
C16_ClassifyByTemperature ==
    classifyOutput # "" =>
        /\ classifyOutput = SpecZone(classifyInput[1])
        /\ (classifyInput[1] = -2 => classifyOutput = "MediumRisk")
        /\ (classifyInput[1] = 2 => classifyOutput = "HighRisk")
        /\ \A g \in ClassifyGasLevels :
               assignZone(classifyInput[1], g) = classifyOutput

C16_Witness ==
    /\ classifyInput = <<-2, 7>>
    /\ classifyOutput = "MediumRisk"
\* C17: submissions are transactions and run one after the other, in any
\* order; each one gets an id no earlier submission got, writes a record
\* slot that was empty and leaves every other submission's record as it was.
C17_NoIdCollision ==
    [][result'.op = "submitEncryptedMeasurement" /\ events' # events =>
         LET newId == events'[Len(events')][2]
         IN  /\ \A i \in 1..Len(events) :
                    IsSubmitted(events[i]) => events[i][2] # newId
             /\ encryptedMeasurements[newId] = EmptyEncrypted
             /\ encryptedMeasurements'[newId].id = newId
             /\ \A k \in Keys \ {newId} :
                    encryptedMeasurements'[k] = encryptedMeasurements[k]]_vars

C17_Witness ==
    /\ measurementCount = 3
    /\ encryptedMeasurements[1].encryptedTemperature = 101
    /\ encryptedMeasurements[2].encryptedTemperature = 102
    /\ encryptedMeasurements[3].encryptedTemperature = 101
Occurrences(zone) == Cardinality({i \in 1..Len(zoneList) : zoneList[i] = zone})

TotalRisk ==
    encryptedZoneRisk["LowRisk"].plain + encryptedZoneRisk["MediumRisk"].plain
        + encryptedZoneRisk["HighRisk"].plain + encryptedZoneRisk["Tundra"].plain

\* C18: callbacks are transactions and run one after the other, in any
\* order; no increment is lost and no label is indexed twice.  The counters
\* of all labels add up to the number of successful contributing callbacks,
\* a label is in the reverse index exactly once if its counter is at least
\* one and not at all otherwise, and every successful callback for a label
\* raises that label's counter by exactly one and no other counter.
C18_NoLostIncrement ==
    /\ [](/\ TotalRisk = NumDecrypts
          /\ \A z \in ZoneLabels :
                 Occurrences(z) = IF encryptedZoneRisk[z].plain >= 1 THEN 1 ELSE 0)
    /\ [][\/ encryptedZoneRisk' = encryptedZoneRisk /\ events' = events
          \/ \A r \in CallbackRequestIds, c \in Cleartexts :
                 (Len(c) = 2 /\ decryptMeasurement(r, c, TRUE)) =>
                     LET z == assignZone(c[1], c[2])
                     IN  /\ encryptedZoneRisk'[z].plain = encryptedZoneRisk[z].plain + 1
                         /\ Occurrences(z)' = 1
                         /\ \A y \in ZoneLabels \ {z} :
                                encryptedZoneRisk'[y] = encryptedZoneRisk[y]]_vars

C18_Witness ==
    /\ encryptedZoneRisk["LowRisk"] = [init |-> TRUE, plain |-> 2]
    /\ zoneList = <<"LowRisk">>
    /\ NumDecrypts = 2
\* C19: a successful zone callback leaves the decrypted count somewhere in
\* the contract's storage or event log, so the step changes one of them.
C19_ZoneResultExposed ==
    [][result' = Receipt("decryptZoneRisk", "ok") => storage' # storage]_vars

\* C20: reading an id that submitEncryptedMeasurement never assigned gives
\* an answer that differs from the answer for every submitted measurement
\* that is still Pending.
C20_UnknownIdNotFound ==
    \A k \in Keys \ (1..measurementCount) :
        \A j \in 1..measurementCount :
            ~decryptedMeasurements[j].isDecrypted =>
                getDecryptedMeasurement(k) # getDecryptedMeasurement(j)
\* Some zone request was issued for the label.
AggregateRequested(zone) ==
    \E r \in RequestIds :
        /\ requestSelector[r] = "decryptZoneRisk"
        /\ requestToMeasurementId[r] = ZoneHash(zone)

\* C21: a zone request and a zone callback, accepted or not, change no zone
\* counter, not the reverse index and no measurement record; and a
\* measurement callback that contributes to a label whose aggregate was
\* requested still raises that label's counter by one.
C21_AggregateReadOnly ==
    [][/\ result'.op \in {"requestZoneRiskDecryption", "decryptZoneRisk"} =>
             UNCHANGED <<encryptedZoneRisk, zoneList, measurementCount,
                         encryptedMeasurements, decryptedMeasurements, events>>
       /\ (result' = Receipt("decryptMeasurement", "ok") /\ events' # events) =>
             \E z \in ZoneLabels :
                 /\ encryptedZoneRisk'[z].plain = encryptedZoneRisk[z].plain + 1
                 /\ AggregateRequested(z) =>
                        /\ encryptedZoneRisk[z].plain >= 1
                        /\ zoneList' = zoneList
                 /\ \A y \in ZoneLabels \ {z} :
                        encryptedZoneRisk'[y] = encryptedZoneRisk[y]]_vars

\* A contribution to LowRisk that came after the zone request for LowRisk
\* (within MaxTx transactions the request cannot have come last).
C21_Witness ==
    /\ result = Receipt("decryptMeasurement", "ok")
    /\ AggregateRequested("LowRisk")
    /\ encryptedZoneRisk["LowRisk"] = [init |-> TRUE, plain |-> 2]
    /\ zoneList = <<"LowRisk">>
\* C22: a measurement request records its measurement under the id the
\* engine minted, that entry stays as it is while other requests are issued
\* and callbacks arrive, and a successful callback for such a request id
\* writes its cleartexts into the record of that measurement and leaves the
\* decrypted record of every other measurement unchanged, whatever the
\* order of the callbacks.
C22_OutOfOrderCorrelated ==
    [][/\ \A r \in RequestIds : requestSelector[r] = "decryptMeasurement" =>
              requestToMeasurementId'[r] = requestToMeasurementId[r]
       /\ \/ result'.status # "ok"
          \/ result'.op \notin {"requestMeasurementDecryption", "decryptMeasurement"}
          \/ /\ result'.op = "requestMeasurementDecryption"
             /\ requestToMeasurementId'[nextRequestId] = events'[Len(events')][2]
             /\ requestSelector'[nextRequestId] = "decryptMeasurement"
          \/ /\ result'.op = "decryptMeasurement"
             /\ \A r \in CallbackRequestIds, c \in Cleartexts :
                    (/\ requestSelector[r] = "decryptMeasurement"
                     /\ Len(c) = 2
                     /\ decryptMeasurement(r, c, TRUE)) =>
                        decryptedMeasurements' =
                            [decryptedMeasurements EXCEPT ![requestToMeasurementId[r]] =
                                [temperature |-> c[1], gasLevel |-> c[2],
                                 isDecrypted |-> TRUE]]]_vars

\* Requests 1 and 2 were issued for measurements 1 and 2 and their
\* callbacks arrived in the opposite order with different cleartexts.
C22_Witness ==
    /\ events = << <<"DecryptionRequested", 1>>, <<"DecryptionRequested", 2>>,
                   <<"MeasurementDecrypted", 2>>, <<"MeasurementDecrypted", 1>> >>
    /\ getDecryptedMeasurement(2) = <<-5, 3, TRUE>>
    /\ getDecryptedMeasurement(1) = <<2, 3, TRUE>>
\* C23: a stored measurement keeps its id, both handles and its timestamp
\* through every later transaction of any kind, and they are the ones its
\* submission wrote: the id is its key, the handles are handles a submitter
\* passed, and the timestamp is the one its MeasurementSubmitted event
\* announced.
C23_EncryptedFieldsImmutable ==
    /\ [](\A k \in 1..measurementCount :
              /\ encryptedMeasurements[k].id = k
              /\ encryptedMeasurements[k].encryptedTemperature \in TemperatureHandles
              /\ encryptedMeasurements[k].encryptedGasLevel \in GasLevelHandles
              /\ \E i \in 1..Len(events) :
                     events[i] = <<"MeasurementSubmitted", k,
                                   encryptedMeasurements[k].timestamp>>)
    /\ [][\A k \in 1..measurementCount :
              encryptedMeasurements'[k] = encryptedMeasurements[k]]_vars

\* Measurement 1 after a later submission, its own decryption request and
\* its callback.
C23_Witness ==
    /\ encryptedMeasurements[1] =
           [id |-> 1, encryptedTemperature |-> 101, encryptedGasLevel |-> 201,
            timestamp |-> 1000]
    /\ encryptedMeasurements[2].encryptedTemperature = 102
    /\ decryptedMeasurements[1].isDecrypted
    /\ result.op = "decryptZoneRisk"
\* The request ids the engine has minted so far.
Minted == 1..(nextRequestId - 1)

\* C24: the engine mints 1, 2, 3, ...; a request of either kind writes the
\* request map only at the id just minted, where nothing was recorded, and
\* no other transaction writes the map, so the entry of every minted id is
\* the one written when it was issued and ids not minted have no entry.
C24_RequestMapNeverOverwritten ==
    /\ [](\A r \in RequestIds \ Minted :
              requestToMeasurementId[r] = 0 /\ requestSelector[r] = "none")
    /\ [][/\ \A r \in Minted :
                 /\ requestToMeasurementId'[r] = requestToMeasurementId[r]
                 /\ requestSelector'[r] = requestSelector[r]
          /\ nextRequestId' \in {nextRequestId, nextRequestId + 1}
          /\ nextRequestId' # nextRequestId =>
                /\ result'.op \in {"requestMeasurementDecryption",
                                   "requestZoneRiskDecryption"}
                /\ requestSelector'[nextRequestId] =
                       IF result'.op = "requestMeasurementDecryption"
                       THEN "decryptMeasurement" ELSE "decryptZoneRisk"]_vars

\* A zone request issued after a measurement request: both entries stand.
C24_Witness ==
    /\ requestSelector[1] = "decryptMeasurement"
    /\ requestToMeasurementId[1] = 1
    /\ requestSelector[2] = "decryptZoneRisk"
    /\ requestToMeasurementId[2] = ZoneHash("LowRisk")
    /\ nextRequestId = 3
\* The revert reasons of the four functions that can fail.
Failures ==
    {"Already decrypted", "Invalid request", "InvalidProof", "Panic",
     "Zone not found", "Decode"}

\* C25: a transaction that fails leaves the measurement count, the
\* encrypted and decrypted records, the request map, the zone counters, the
\* zone index and the event log as they were, and mints no request id; a
\* transaction that does not fail reports "ok".
C25_FailureChangesNothing ==
    [][/\ result'.status \in Failures \cup {"ok"}
       /\ result'.status \in Failures =>
             /\ measurementCount' = measurementCount
             /\ encryptedMeasurements' = encryptedMeasurements
             /\ decryptedMeasurements' = decryptedMeasurements
             /\ requestToMeasurementId' = requestToMeasurementId
             /\ encryptedZoneRisk' = encryptedZoneRisk
             /\ zoneList' = zoneList
             /\ events' = events
             /\ nextRequestId' = nextRequestId
             /\ requestSelector' = requestSelector]_vars

\* A zone callback rejected for its proof, with measurements, requests and
\* a bucket in the storage.
C25_Witness ==
    /\ result = Receipt("decryptZoneRisk", "InvalidProof")
    /\ measurementCount = 1
    /\ encryptedZoneRisk["HighRisk"].plain = 1
    /\ zoneList = <<"HighRisk">>
    /\ nextRequestId = 3
\* C26: in the event log every MeasurementDecrypted(id) comes after a
\* DecryptionRequested(id), which comes after a MeasurementSubmitted(id, _),
\* and no id has two MeasurementDecrypted events.
C26_NotificationOrder ==
    /\ \A i \in 1..Len(events) :
           events[i][1] = "MeasurementDecrypted" =>
               \E j \in 1..(i - 1) :
                   /\ events[j] = <<"DecryptionRequested", events[i][2]>>
                   /\ \E h \in 1..(j - 1) :
                          /\ events[h][1] = "MeasurementSubmitted"
                          /\ events[h][2] = events[i][2]
    /\ \A i, j \in 1..Len(events) :
           (/\ events[i][1] = "MeasurementDecrypted"
            /\ events[j] = events[i]) => i = j
\* C27: right after a submission the new id reads (0, 0, false), whatever
\* the mapping held under that number before, and the submission changes no
\* zone counter, not the reverse index, no request-map entry and no other
\* measurement's decrypted record.
C27_FreshIsPending ==
    [][(result'.op = "submitEncryptedMeasurement" /\ events' # events) =>
         LET n == events'[Len(events')][2]
         IN  /\ n = measurementCount'
             /\ decryptedMeasurements'[n] =
                    [temperature |-> 0, gasLevel |-> 0, isDecrypted |-> FALSE]
             /\ \A k \in Keys \ {n} :
                    decryptedMeasurements'[k] = decryptedMeasurements[k]
             /\ encryptedZoneRisk' = encryptedZoneRisk
             /\ zoneList' = zoneList
             /\ requestToMeasurementId' = requestToMeasurementId
             /\ nextRequestId' = nextRequestId]_vars

\* Measurement 1 just submitted and Pending, although a callback had been
\* applied to the number 1 before (see C7) and its contribution stands.
C27_Witness ==
    /\ result = Receipt("submitEncryptedMeasurement", "ok")
    /\ measurementCount = 1
    /\ events[Len(events)] = <<"MeasurementSubmitted", 1, 1000>>
    /\ \E i \in 1..Len(events) : events[i] = <<"MeasurementDecrypted", 1>>
    /\ getDecryptedMeasurement(1) = <<0, 0, FALSE>>
    /\ zoneList # <<>>
\* The ids in the key list the store holds.
StoredKeys ==
    LET ks == parseKeys(getData(KeysKey))
    IN  {ks[i] : i \in 1..Len(ks)}

\* C28: once both calls of addDataPoint have shown their success banner,
\* both new ids are in the stored key list, and every id with a stored
\* record is in it, so loadData reaches the record.
C28_BothIdsKept ==
    (\A c \in Clients : transactionStatus[c].status = "success") =>
        /\ \A c \in Clients : dataId[c] \in StoredKeys
        /\ \A id \in AllDataIds :
               getData(DataKey(id)) # <<>> => id \in StoredKeys
====
